---- MODULE Spec2Model ----
(***************************************************************************)
(* Model of Dashboard/dashboard.py: a Streamlit script that is re-run top  *)
(* to bottom on every page load or widget change.  One run is              *)
(*   date inputs -> load_data (memoized) -> load check -> min/max date     *)
(*   -> overview -> key metrics -> season chart -> day-type chart          *)
(*   -> correlation heatmap -> conclusion.                                 *)
(* The storage (hour_df.csv, day_df.csv) is static; st.cache_data keeps    *)
(* one entry per (start_date, end_date) and has no eviction.               *)
(***************************************************************************)
EXTENDS Integers, Sequences, FiniteSets, TLC

VARIABLES
    hourCsvExists,  \* hour_df.csv is present in the application directory
    dayCsvExists,   \* day_df.csv is present in the application directory
    dayCsv,         \* the lines of day_df.csv, in file order
    cache,          \* st.cache_data store of load_data: key -> returned value
    reads,          \* arguments -> number of times load_data's body read storage
    served,         \* how line 83 got its value in this run: "body" or "cache"
    start_date,     \* value of the "Pilih Tanggal Mulai" date input
    end_date,       \* value of the "Pilih Tanggal Akhir" date input
    pc,             \* position of the running script
    hours_df,       \* "unset", "None" or "df"
    days_df,        \* [isNone, rows]: the second value load_data returned
    min_date,       \* what line 90/97 left in min_date
    max_date,       \* what line 91/98 left in max_date
    errors,         \* st.error messages shown in this run, in order
    page,           \* names of the elements rendered in this run, in order
    metrics,        \* total_rentals, daily_avg and the four st.metric cards
    season_avg,     \* bars of the season chart
    avg_by_type,    \* bars of the day-type chart
    correlation     \* the cnt/cnt cell of the heatmap

vars == <<hourCsvExists, dayCsvExists, dayCsv, cache, reads, served, start_date,
          end_date, pc, hours_df, days_df, min_date, max_date, errors, page,
          metrics, season_avg, avg_by_type, correlation>>

storageVars == <<hourCsvExists, dayCsvExists, dayCsv>>
outputVars == <<min_date, max_date, errors, page, metrics, season_avg,
                avg_by_type, correlation>>

-----------------------------------------------------------------------------
(* Bounds of the model *)

\* Longest day_df.csv drawn for a single run of the script.
MaxRows == 3
\* Longest day_df.csv drawn for a session of several runs.
MaxCsvRows == 2
\* Cap on the per-key counter of storage reads.
MaxReads == 2

-----------------------------------------------------------------------------
(* Calendar dates.  A date string or datetime.date is <<year, month, day>>; *)
(* a pandas Timestamp is the number of days since 2011-01-01; NaT is the   *)
(* missing timestamp.                                                      *)

NaT == -1

EpochYear == 2011

IsLeap(y) == (y % 4 = 0 /\ y % 100 # 0) \/ y % 400 = 0

DaysInMonth(y, m) ==
    IF m = 2 THEN (IF IsLeap(y) THEN 29 ELSE 28)
    ELSE IF m \in {4, 6, 9, 11} THEN 30 ELSE 31

DaysInYear(y) == IF IsLeap(y) THEN 366 ELSE 365

\* IsCalendarDate without the day-of-month limit: "2011-02-30" rolls over
\* into March instead of being rejected.
IsCalendarDateNoDayLimit(t) ==
    /\ t[1] >= EpochYear
    /\ t[2] \in 1..12
    /\ t[3] >= 1

IsCalendarDate(t) ==
    /\ t[1] >= EpochYear
    /\ t[2] \in 1..12
    /\ t[3] >= 1
    /\ t[3] <= DaysInMonth(t[1], t[2])

RECURSIVE DaysBeforeYear(_)
DaysBeforeYear(y) ==
    IF y <= EpochYear THEN 0 ELSE DaysInYear(y - 1) + DaysBeforeYear(y - 1)

RECURSIVE DaysBeforeMonth(_, _)
DaysBeforeMonth(y, m) ==
    IF m <= 1 THEN 0 ELSE DaysInMonth(y, m - 1) + DaysBeforeMonth(y, m - 1)

\* pd.to_datetime(x, errors='coerce') of one value: its Timestamp, or NaT.
ToDatetime(t) ==
    IF IsCalendarDate(t)
    THEN DaysBeforeYear(t[1]) + DaysBeforeMonth(t[1], t[2]) + (t[3] - 1)
    ELSE NaT

RECURSIVE YearOf(_, _)
YearOf(o, y) == IF o < DaysInYear(y) THEN <<y, o>> ELSE YearOf(o - DaysInYear(y), y + 1)

RECURSIVE MonthOf(_, _, _)
MonthOf(o, y, m) ==
    IF o < DaysInMonth(y, m) THEN <<m, o>> ELSE MonthOf(o - DaysInMonth(y, m), y, m + 1)

\* Timestamp.strftime: the calendar fields of a Timestamp; "NaT" for NaT, as
\* the f-string on line 101 prints it.
Strftime(o) ==
    IF o = NaT THEN <<"NaT">>
    ELSE LET yo == YearOf(o, EpochYear)
             mo == MonthOf(yo[2], yo[1], 1)
         IN  <<yo[1], mo[1], mo[2] + 1>>

-----------------------------------------------------------------------------
(* Tables.  A line of day_df.csv is [dteday, cnt, day_type, season]; once  *)
(* read, a row also carries idx, its RangeIndex label.                     *)

CsvLine(d, c, t, s) == [dteday |-> d, cnt |-> c, day_type |-> t, season |-> s]

\* The lines a day_df.csv is drawn from: valid and invalid dates, repeated
\* dates, equal counts on different dates, every day type and one unknown.
CsvLines == {
    CsvLine(<<2011, 1, 1>>, 100, "Akhir Pekan", 1),
    CsvLine(<<2011, 1, 2>>, 300, "Akhir Pekan", 1),
    CsvLine(<<2011, 1, 3>>, 50, "Hari Kerja", 1),
    CsvLine(<<2011, 1, 2>>, 100, "Hari Kerja", 2),
    CsvLine(<<2011, 1, 3>>, 300, "Hari Libur Nasional", 2),
    CsvLine(<<2011, 1, 1>>, 50, "Hari Libur Nasional", 3),
    CsvLine(<<2011, 2, 30>>, 300, "Hari Kerja", 4),
    CsvLine(<<2011, 13, 1>>, 50, "Lainnya", 4) }

SeqsUpTo(S, n) == UNION {[1..k -> S] : k \in 0..n}

\* pd.read_csv: the lines with their RangeIndex labels.
ReadCsv(lines) ==
    [i \in 1..Len(lines) |->
        [idx |-> i - 1, dteday |-> lines[i].dteday, cnt |-> lines[i].cnt,
         day_type |-> lines[i].day_type, season |-> lines[i].season]]

\* days_df['dteday'] = pd.to_datetime(days_df['dteday'], errors='coerce')
ConvertDates(df) ==
    [i \in 1..Len(df) |-> [df[i] EXCEPT !.dteday = ToDatetime(df[i].dteday)]]

KeepValid(r) == r.dteday # NaT

\* days_df.dropna(subset=['dteday'])
DropNa(df) == SelectSeq(df, KeepValid)

\* InRange with the end bound exclusive.
InRangeEndExclusive(r, s, e) == r.dteday # NaT /\ r.dteday >= s /\ r.dteday < e

InRange(r, s, e) == r.dteday # NaT /\ r.dteday >= s /\ r.dteday <= e

\* FilterByRange with | in place of &.
FilterByRangeEither(df, s, e) ==
    LET Keep(r) == r.dteday # NaT /\ (r.dteday >= s \/ r.dteday <= e)
    IN  SelectSeq(df, Keep)

\* days_df[(days_df['dteday'] >= start) & (days_df['dteday'] <= end)]
FilterByRange(df, s, e) ==
    LET Keep(r) == InRange(r, s, e) IN SelectSeq(df, Keep)

\* The value load_data returns: (None, None), or the two frames.
NoneResult == [isNone |-> TRUE, rows |-> <<>>]

LoadResult(hExists, dExists, lines, sd, ed) ==
    IF ~hExists \/ ~dExists THEN NoneResult
    ELSE [isNone |-> FALSE,
          rows |-> FilterByRange(DropNa(ConvertDates(ReadCsv(lines))),
                                 ToDatetime(sd), ToDatetime(ed))]

-----------------------------------------------------------------------------
(* Aggregates.  A pandas float is [nan, num, den] with num/den in lowest   *)
(* terms; NaN is the missing value.                                        *)

RECURSIVE Gcd(_, _)
Gcd(a, b) == IF b = 0 THEN a ELSE Gcd(b, a % b)

NaN == [nan |-> TRUE, num |-> 0, den |-> 1]

Float(n, d) ==
    LET g == Gcd(n, d) IN [nan |-> FALSE, num |-> n \div g, den |-> d \div g]

RECURSIVE SumCnt(_)
\* days_df['cnt'].sum(): 0 for an empty column
SumCnt(df) == IF df = <<>> THEN 0 ELSE Head(df).cnt + SumCnt(Tail(df))

\* days_df['cnt'].mean(): NaN for an empty column, no exception
MeanCnt(df) == IF Len(df) = 0 THEN NaN ELSE Float(SumCnt(df), Len(df))

RECURSIVE ArgMaxLast(_, _, _)
\* ArgMax keeping the last occurrence of the largest cnt.
ArgMaxLast(df, i, best) ==
    IF i > Len(df) THEN best
    ELSE ArgMaxLast(df, i + 1, IF df[i].cnt >= df[best].cnt THEN i ELSE best)

RECURSIVE ArgMax(_, _, _)
\* position of the first occurrence of the largest cnt, scanning from i
ArgMax(df, i, best) ==
    IF i > Len(df) THEN best
    ELSE ArgMax(df, i + 1, IF df[i].cnt > df[best].cnt THEN i ELSE best)

RECURSIVE ArgMin(_, _, _)
\* position of the first occurrence of the smallest cnt, scanning from i
ArgMin(df, i, best) ==
    IF i > Len(df) THEN best
    ELSE ArgMin(df, i + 1, IF df[i].cnt < df[best].cnt THEN i ELSE best)

\* days_df['cnt'].idxmax(): the index label of the first largest cnt
IdxMax(df) == df[ArgMax(df, 2, 1)].idx

\* days_df['cnt'].idxmin(): the index label of the first smallest cnt
IdxMin(df) == df[ArgMin(df, 2, 1)].idx

\* days_df.loc[label]: the row carrying that index label
Loc(df, label) == df[CHOOSE i \in 1..Len(df) : df[i].idx = label]

RECURSIVE MinDate(_)
\* days_df['dteday'].min(): NaT for an empty column
MinDate(df) ==
    IF df = <<>> THEN NaT
    ELSE LET rest == MinDate(Tail(df))
         IN  IF rest = NaT \/ Head(df).dteday < rest THEN Head(df).dteday ELSE rest

RECURSIVE MaxDate(_)
\* days_df['dteday'].max(): NaT for an empty column
MaxDate(df) ==
    IF df = <<>> THEN NaT
    ELSE LET rest == MaxDate(Tail(df))
         IN  IF rest = NaT \/ Head(df).dteday > rest THEN Head(df).dteday ELSE rest

\* days_df.groupby('day_type')['cnt'].mean(): category present -> mean
GroupMeanByDayType(df) ==
    LET cats == {df[i].day_type : i \in 1..Len(df)}
        Of(c) == LET Is(r) == r.day_type = c IN SelectSeq(df, Is)
    IN  [c \in cats |-> MeanCnt(Of(c))]

\* the barplot's estimator='mean' over x='season': season present -> mean
GroupMeanBySeason(df) ==
    LET cats == {df[i].season : i \in 1..Len(df)}
        Of(c) == LET Is(r) == r.season = c IN SelectSeq(df, Is)
    IN  [c \in cats |-> MeanCnt(Of(c))]

\* The fixed order of line 173: Working Day, Weekend, National Holiday.
DayTypeOrder == <<"Hari Kerja", "Akhir Pekan", "Hari Libur Nasional">>

\* Reindex with fill_value=0: a label the series lacks gets 0.
ReindexFillZero(series, order) ==
    [i \in 1..Len(order) |->
        [cat |-> order[i],
         val |-> IF order[i] \in DOMAIN series THEN series[order[i]]
                 ELSE Float(0, 1)]]

\* Series.reindex(order): the labels of order, in order; a label the series
\* lacks gets NaN, a label of the series that order lacks is dropped.
Reindex(series, order) ==
    [i \in 1..Len(order) |->
        [cat |-> order[i],
         val |-> IF order[i] \in DOMAIN series THEN series[order[i]] ELSE NaN]]

\* days_df[numeric_cols].corr(), the cnt/cnt cell: NaN with fewer than two
\* rows or a constant column, else 1.
CorrCntCnt(df) ==
    IF Len(df) < 2 \/ \A i \in 1..Len(df) : df[i].cnt = df[1].cnt
    THEN NaN ELSE Float(1, 1)

-----------------------------------------------------------------------------
(* What st.metric is given: a number or a text, and the delta line.        *)

Num(n, d) == [kind |-> "num", n |-> n, text |-> "", delta |-> d]
Text(s) == [kind |-> "text", n |-> 0, text |-> s, delta |-> <<>>]

NoDataText == "Tidak ada data"

\* f"{x:,.0f}" of a float: 'nan' for NaN, else rounded half to even
FormatFloat0(x) ==
    IF x.nan THEN Text("nan")
    ELSE LET q == x.num \div x.den
             r == x.num % x.den
         IN  Num(IF 2 * r < x.den THEN q
                 ELSE IF 2 * r > x.den THEN q + 1
                 ELSE IF q % 2 = 0 THEN q ELSE q + 1, <<>>)

\* lines 129-134: the "Penyewaan Tertinggi" card
MaxCard(df) ==
    IF df # <<>>
    THEN LET max_day == Loc(df, IdxMax(df))
         IN  Num(max_day.cnt, Strftime(max_day.dteday))
    ELSE Text(NoDataText)

\* lines 139-144: the "Penyewaan Terendah" card
MinCard(df) ==
    IF df # <<>>
    THEN LET min_day == Loc(df, IdxMin(df))
         IN  Num(min_day.cnt, Strftime(min_day.dteday))
    ELSE Text(NoDataText)

ErrNotFound == "File data tidak ditemukan"
ErrIncompleteDate == "Data tanggal tidak lengkap"

-----------------------------------------------------------------------------
(* The script *)

\* The dates the date inputs can be set to in a session.  The widgets start
\* at datetime(2011, 1, 1) and datetime(2012, 12, 31).
DefaultStart == <<2011, 1, 1>>
DefaultEnd == <<2012, 12, 31>>
StartChoices == {DefaultStart, <<2011, 1, 3>>}
EndChoices == {<<2011, 1, 2>>, DefaultEnd}

\* The dates the date inputs are drawn from for a single run.
RunDates == {<<2011, 1, 1>>, <<2011, 1, 2>>, <<2011, 1, 3>>}

\* CacheKey that leaves the end date out of the key.
CacheKeyStartOnly(sd, ed) == <<sd, sd>>

\* st.cache_data hashes the arguments of the call.
CacheKey(sd, ed) == <<sd, ed>>

ReadsOf(k) == IF k \in DOMAIN reads THEN reads[k] ELSE 0

\* Lines 9-80: page configuration, CSS, the sidebar and its date inputs.
TopOfScript(sd, ed) ==
    /\ start_date = sd
    /\ end_date = ed
    /\ pc = "load"
    /\ served = "none"
    /\ hours_df = "unset"
    /\ days_df = NoneResult
    /\ min_date = <<>>
    /\ max_date = <<>>
    /\ errors = <<>>
    /\ page = <<"sidebar">>
    /\ metrics = <<>>
    /\ season_avg = <<>>
    /\ avg_by_type = <<>>
    /\ correlation = <<>>

Storage(n) ==
    /\ hourCsvExists \in BOOLEAN
    /\ dayCsvExists \in BOOLEAN
    /\ dayCsv \in (IF dayCsvExists THEN SeqsUpTo(CsvLines, n) ELSE {<<>>})

\* A session: the server starts with an empty cache and the first run uses
\* the widgets' default dates.
Init ==
    /\ Storage(MaxCsvRows)
    /\ cache = <<>>
    /\ reads = <<>>
    /\ TopOfScript(DefaultStart, DefaultEnd)

\* A single run on any dates.
InitRun ==
    /\ Storage(MaxRows)
    /\ cache = <<>>
    /\ reads = <<>>
    /\ \E sd \in RunDates, ed \in RunDates : TopOfScript(sd, ed)

\* What load_data leaves behind at line 83, given the value it returned.
Returned(result) ==
    /\ hours_df' = IF result.isNone THEN "None" ELSE "df"
    /\ days_df' = result
    /\ errors' = IF result.isNone THEN Append(errors, ErrNotFound) ELSE errors
    /\ pc' = "check"

\* Line 83, no entry for the arguments: the body of load_data runs (lines
\* 53-70), reads both files, and its return value is stored.
LoadDataMiss ==
    /\ pc = "load"
    /\ CacheKey(start_date, end_date) \notin DOMAIN cache
    /\ ReadsOf(<<start_date, end_date>>) < MaxReads
    /\ LET result == LoadResult(hourCsvExists, dayCsvExists, dayCsv,
                                start_date, end_date)
       IN  /\ cache' = (CacheKey(start_date, end_date) :> result) @@ cache
           /\ Returned(result)
    /\ reads' = (<<start_date, end_date>> :> ReadsOf(<<start_date, end_date>>) + 1)
                    @@ reads
    /\ served' = "body"
    /\ UNCHANGED <<storageVars, start_date, end_date, min_date, max_date,
                   page, metrics, season_avg, avg_by_type, correlation>>

\* Line 83, an entry for the arguments: the stored value is returned and the
\* st.error the body showed is replayed; the files are not read.
LoadDataHit ==
    /\ pc = "load"
    /\ CacheKey(start_date, end_date) \in DOMAIN cache
    /\ Returned(cache[CacheKey(start_date, end_date)])
    /\ served' = "cache"
    /\ UNCHANGED <<storageVars, cache, reads, start_date, end_date, min_date,
                   max_date, page, metrics, season_avg, avg_by_type,
                   correlation>>

\* CheckLoaded without the st.stop(): the script goes on after a failed load.
CheckLoadedNoStop ==
    /\ pc = "check"
    /\ pc' = "minmax"
    /\ UNCHANGED <<storageVars, cache, reads, served, start_date, end_date,
                   hours_df, days_df, outputVars>>

\* Lines 86-87: st.stop() ends the run when load_data returned None.
CheckLoaded ==
    /\ pc = "check"
    /\ pc' = IF hours_df = "None" \/ days_df.isNone THEN "stopped" ELSE "minmax"
    /\ UNCHANGED <<storageVars, cache, reads, served, start_date, end_date, hours_df,
                   days_df, outputVars>>

\* Lines 90-98: min and max of dteday; an error message when they are NaT,
\* their formatted text otherwise.  The script goes on in both cases.
MinMaxDate ==
    /\ pc = "minmax"
    /\ LET lo == MinDate(days_df.rows)
           hi == MaxDate(days_df.rows)
       IN  IF lo = NaT \/ hi = NaT
           THEN /\ errors' = Append(errors, ErrIncompleteDate)
                /\ min_date' = <<"NaT">>
                /\ max_date' = <<"NaT">>
           ELSE /\ errors' = errors
                /\ min_date' = Strftime(lo)
                /\ max_date' = Strftime(hi)
    /\ pc' = "overview"
    /\ UNCHANGED <<storageVars, cache, reads, served, start_date, end_date, hours_df,
                   days_df, page, metrics, season_avg, avg_by_type,
                   correlation>>

\* Lines 101-112: the period line, the overview table and the headers.
DataOverview ==
    /\ pc = "overview"
    /\ page' = page \o <<"period", "overview">>
    /\ pc' = "metrics"
    /\ UNCHANGED <<storageVars, cache, reads, served, start_date, end_date, hours_df,
                   days_df, min_date, max_date, errors, metrics, season_avg,
                   avg_by_type, correlation>>

\* Lines 113-145: the four metric cards.
KeyMetrics ==
    /\ pc = "metrics"
    /\ metrics' = [total_rentals |-> SumCnt(days_df.rows),
                   daily_avg |-> MeanCnt(days_df.rows),
                   total |-> Num(SumCnt(days_df.rows), <<>>),
                   avg |-> FormatFloat0(MeanCnt(days_df.rows)),
                   max |-> MaxCard(days_df.rows),
                   min |-> MinCard(days_df.rows)]
    /\ page' = Append(page, "metrics")
    /\ pc' = "season"
    /\ UNCHANGED <<storageVars, cache, reads, served, start_date, end_date, hours_df,
                   days_df, min_date, max_date, errors, season_avg,
                   avg_by_type, correlation>>

\* Lines 148-163: mean cnt per season as a bar chart.
SeasonChart ==
    /\ pc = "season"
    /\ season_avg' = GroupMeanBySeason(days_df.rows)
    /\ page' = Append(page, "season_chart")
    /\ pc' = "daytype"
    /\ UNCHANGED <<storageVars, cache, reads, served, start_date, end_date, hours_df,
                   days_df, min_date, max_date, errors, metrics, avg_by_type,
                   correlation>>

\* Lines 166-180: mean cnt per day type, reindexed, as a bar chart.
DayTypeChart ==
    /\ pc = "daytype"
    /\ avg_by_type' = Reindex(GroupMeanByDayType(days_df.rows), DayTypeOrder)
    /\ page' = Append(page, "daytype_chart")
    /\ pc' = "heatmap"
    /\ UNCHANGED <<storageVars, cache, reads, served, start_date, end_date, hours_df,
                   days_df, min_date, max_date, errors, metrics, season_avg,
                   correlation>>

\* Lines 183-195: the correlation matrix as a heatmap.
CorrelationHeatmap ==
    /\ pc = "heatmap"
    /\ correlation' = <<CorrCntCnt(days_df.rows)>>
    /\ page' = Append(page, "heatmap")
    /\ pc' = "conclusion"
    /\ UNCHANGED <<storageVars, cache, reads, served, start_date, end_date, hours_df,
                   days_df, min_date, max_date, errors, metrics, season_avg,
                   avg_by_type>>

\* Lines 198-225: conclusion and footer; the run ends.
Conclusion ==
    /\ pc = "conclusion"
    /\ page' = Append(page, "conclusion")
    /\ pc' = "done"
    /\ UNCHANGED <<storageVars, cache, reads, served, start_date, end_date, hours_df,
                   days_df, min_date, max_date, errors, metrics, season_avg,
                   avg_by_type, correlation>>

\* A date input changes, or the page is reloaded, after a run has ended: the
\* script starts again from the top with the widgets' values.
Rerun ==
    /\ pc \in {"done", "stopped"}
    /\ \E sd \in StartChoices, ed \in EndChoices :
          /\ start_date' = sd
          /\ end_date' = ed
    /\ pc' = "load"
    /\ served' = "none"
    /\ hours_df' = "unset"
    /\ days_df' = NoneResult
    /\ min_date' = <<>>
    /\ max_date' = <<>>
    /\ errors' = <<>>
    /\ page' = <<"sidebar">>
    /\ metrics' = <<>>
    /\ season_avg' = <<>>
    /\ avg_by_type' = <<>>
    /\ correlation' = <<>>
    /\ UNCHANGED <<storageVars, cache, reads>>

RunStep ==
    \/ LoadDataMiss
    \/ CheckLoaded
    \/ MinMaxDate
    \/ DataOverview
    \/ KeyMetrics
    \/ SeasonChart
    \/ DayTypeChart
    \/ CorrelationHeatmap
    \/ Conclusion

Next ==
    \/ LoadDataMiss
    \/ LoadDataHit
    \/ CheckLoaded
    \/ MinMaxDate
    \/ DataOverview
    \/ KeyMetrics
    \/ SeasonChart
    \/ DayTypeChart
    \/ CorrelationHeatmap
    \/ Conclusion
    \/ Rerun

\* A session of runs over a static storage.
Spec == Init /\ [][Next]_vars

\* One run of the script on any dates and a larger day_df.csv.
SpecRun == InitRun /\ [][RunStep]_vars

-----------------------------------------------------------------------------
(* Properties *)

Shown(msg) == \E i \in 1..Len(errors) : errors[i] = msg
Rendered(el) == \E i \in 1..Len(page) : page[i] = el
Summarized == {"metrics", "season_chart", "daytype_chart", "heatmap"}

\* Calendar order on <<year, month, day>>.
DateLeq(a, b) ==
    \/ a[1] < b[1]
    \/ a[1] = b[1] /\ a[2] < b[2]
    \/ a[1] = b[1] /\ a[2] = b[2] /\ a[3] <= b[3]

\* The date strings of CsvLines that are no calendar date.
BadDates == {<<2011, 2, 30>>, <<2011, 13, 1>>}

\* The daily table as read and parsed, before any row is dropped.
Parsed == ConvertDates(ReadCsv(dayCsv))

\* load_data has returned two frames in this run.
Loaded == pc # "load" /\ ~days_df.isNone

\* The date string of the line a row of days_df was read from.
CsvDate(r) == dayCsv[r.idx + 1].dteday

RECURSIVE SumOver(_, _)
\* Sum of cnt over the rows at the positions S.
SumOver(df, S) ==
    IF S = {} THEN 0
    ELSE LET i == CHOOSE x \in S : TRUE IN df[i].cnt + SumOver(df, S \ {i})

C2_IncompleteDateHalts ==
    (Loaded /\ DropNa(Parsed) = <<>> /\ pc \notin {"check", "minmax"}) =>
        /\ Shown(ErrIncompleteDate)
        /\ \A i \in 1..Len(page) : page[i] \notin Summarized

\* C3: for start <= end the filtered table holds exactly the rows of the
\* parsed table whose date d has start <= d <= end, in table order, and is
\* no longer than the input.
C3_FilterByRangeInclusive ==
    (Loaded /\ DateLeq(start_date, end_date)) =>
        LET rows == days_df.rows
            s == ToDatetime(start_date)
            e == ToDatetime(end_date)
        IN  /\ Len(rows) <= Len(dayCsv)
            /\ \A i \in 1..Len(rows) :
                  /\ rows[i] = Parsed[rows[i].idx + 1]
                  /\ s <= rows[i].dteday
                  /\ rows[i].dteday <= e
            /\ \A i, j \in 1..Len(rows) : i < j => rows[i].idx < rows[j].idx
            /\ \A k \in 1..Len(Parsed) :
                  (s <= Parsed[k].dteday /\ Parsed[k].dteday <= e)
                      => \E i \in 1..Len(rows) : rows[i].idx = k - 1

C3_Witness ==
    /\ pc = "check"
    /\ ~days_df.isNone
    /\ DateLeq(start_date, end_date)
    /\ start_date # end_date
    /\ \E i \in 1..Len(days_df.rows) : CsvDate(days_df.rows[i]) = start_date
    /\ \E i \in 1..Len(days_df.rows) : CsvDate(days_df.rows[i]) = end_date
    /\ Len(days_df.rows) < Len(DropNa(Parsed))

\* C4: when the daily table has valid rows and none is in the selected
\* range, the run shows no error and its cards report "no data".
C4_EmptyFilterIsNoError ==
    (Loaded /\ DropNa(Parsed) # <<>> /\ days_df.rows = <<>>
        /\ DateLeq(start_date, end_date) /\ pc \notin {"check", "minmax"}) =>
        /\ errors = <<>>
        /\ Rendered("metrics") =>
              /\ metrics.avg = Text(NoDataText)
              /\ metrics.max = Text(NoDataText)
              /\ metrics.min = Text(NoDataText)

\* C5: the summary of an empty table reports "no data" for the mean, the
\* maximum and the minimum; the mean shown is never a NaN.
C5_EmptySummaryReportsNoData ==
    (Rendered("metrics") /\ days_df.rows = <<>>) =>
        /\ metrics.avg = Text(NoDataText)
        /\ metrics.max = Text(NoDataText)
        /\ metrics.min = Text(NoDataText)

\* The fixture of C6: (2011-01-01, 100), (2011-01-02, 300), (2011-01-03, 50).
IsFixture(rows) ==
    /\ Len(rows) = 3
    /\ CsvDate(rows[1]) = <<2011, 1, 1>> /\ rows[1].cnt = 100
    /\ CsvDate(rows[2]) = <<2011, 1, 2>> /\ rows[2].cnt = 300
    /\ CsvDate(rows[3]) = <<2011, 1, 3>> /\ rows[3].cnt = 50

\* C6: for a non-empty table the total is the sum of cnt, the mean is the
\* total over the row count, and the highest and lowest cards show the first
\* row in table order that has the largest, respectively smallest, cnt, with
\* its date; on the fixture: 450, 150, 2011-01-02, 2011-01-03.
C6_SummaryOfNonEmptyTable ==
    (Rendered("metrics") /\ days_df.rows # <<>>) =>
        LET rows == days_df.rows
            n == Len(rows)
            total == SumOver(rows, 1..n)
            hi == CHOOSE i \in 1..n :
                    /\ \A j \in 1..n : rows[j].cnt <= rows[i].cnt
                    /\ \A j \in 1..(i - 1) : rows[j].cnt < rows[i].cnt
            lo == CHOOSE i \in 1..n :
                    /\ \A j \in 1..n : rows[j].cnt >= rows[i].cnt
                    /\ \A j \in 1..(i - 1) : rows[j].cnt > rows[i].cnt
        IN  /\ metrics.total_rentals = total
            /\ metrics.total = Num(total, <<>>)
            /\ ~metrics.daily_avg.nan
            /\ metrics.daily_avg.num * n = metrics.daily_avg.den * total
            /\ metrics.max = Num(rows[hi].cnt, CsvDate(rows[hi]))
            /\ metrics.min = Num(rows[lo].cnt, CsvDate(rows[lo]))
            /\ IsFixture(rows) =>
                  /\ metrics.total_rentals = 450
                  /\ metrics.daily_avg.num = 150
                  /\ metrics.daily_avg.den = 1
                  /\ metrics.max.delta = <<2011, 1, 2>>
                  /\ metrics.min.delta = <<2011, 1, 3>>

C6_Witness ==
    /\ Rendered("metrics")
    /\ IsFixture(days_df.rows)

C8_UnparseableRowsDropped ==
    Loaded =>
        LET rows == days_df.rows
        IN  /\ \A i \in 1..Len(rows) : CsvDate(rows[i]) \notin BadDates
            /\ (start_date = DefaultStart /\ end_date = DefaultEnd) =>
                  \A k \in 1..Len(dayCsv) :
                      dayCsv[k].dteday \notin BadDates
                          => \E i \in 1..Len(rows) : rows[i].idx = k - 1
            /\ (pc \notin {"check", "minmax"} /\ rows # <<>>) =>
                  /\ \E i \in 1..Len(rows) : CsvDate(rows[i]) = min_date
                  /\ \E i \in 1..Len(rows) : CsvDate(rows[i]) = max_date
                  /\ \A i \in 1..Len(rows) :
                        /\ DateLeq(min_date, CsvDate(rows[i]))
                        /\ DateLeq(CsvDate(rows[i]), max_date)

C8_Witness ==
    /\ pc = "overview"
    /\ ~days_df.isNone
    /\ days_df.rows # <<>>
    /\ \E k \in 1..Len(dayCsv) : dayCsv[k].dteday \in BadDates
    /\ min_date \notin BadDates

\* C9: the day-type means are always the three categories Hari Kerja, Akhir
\* Pekan, Hari Libur Nasional in that order; a category with rows reports
\* the mean of their cnt, a category without rows reports the missing value
\* and not zero.
C9_MeanByDayTypeFixedOrder ==
    Rendered("daytype_chart") =>
        LET rows == days_df.rows
        IN  /\ Len(avg_by_type) = 3
            /\ avg_by_type[1].cat = "Hari Kerja"
            /\ avg_by_type[2].cat = "Akhir Pekan"
            /\ avg_by_type[3].cat = "Hari Libur Nasional"
            /\ \A i \in 1..3 :
                  LET S == {j \in 1..Len(rows) :
                                rows[j].day_type = avg_by_type[i].cat}
                      v == avg_by_type[i].val
                  IN  IF S = {} THEN v.nan
                      ELSE /\ ~v.nan
                           /\ v.num * Cardinality(S) = v.den * SumOver(rows, S)

C9_Witness ==
    /\ Rendered("daytype_chart")
    /\ Len(days_df.rows) = 3
    /\ days_df.rows[1].day_type = "Akhir Pekan"
    /\ days_df.rows[2].day_type = "Hari Kerja"
    /\ days_df.rows[3].day_type = "Akhir Pekan"
    /\ avg_by_type[3].val.nan

\* C10: for every range with start > end the filter returns the empty table
\* and load_data shows no error: the one outcome for all such ranges.
C10_ReversedRangeIsEmpty ==
    (Loaded /\ ~DateLeq(start_date, end_date)) =>
        /\ days_df.rows = <<>>
        /\ ~Shown(ErrNotFound)
        /\ pc = "check" => errors = <<>>

C10_Witness ==
    /\ pc = "check"
    /\ ~days_df.isNone
    /\ ~DateLeq(start_date, end_date)
    /\ \E k \in 1..Len(Parsed) :
          /\ Parsed[k].dteday <= ToDatetime(start_date)
          /\ Parsed[k].dteday >= ToDatetime(end_date)
    /\ days_df.rows = <<>>

====
